---------------------------- MODULE Spec2Model ----------------------------
(***************************************************************************)
(* Dataset-split inference for Discover saved queries                      *)
(* (src/src/sentry/discover/dataset_split.py).                             *)
(*                                                                         *)
(* A saved query of ambiguous type is classified as ERROR_EVENTS or        *)
(* TRANSACTION_LIKE: first by field/condition heuristics on the resolved   *)
(* query, then by two existence probes against the two backends, then by a *)
(* forced default.  A live run persists the decision, a dry run logs it.   *)
(*                                                                         *)
(* Issue-velocity threshold (src/src/sentry/issues/issue_velocity.py).     *)
(*                                                                         *)
(* The escalation threshold of a project is cached in redis with the date  *)
(* of its calculation; get_latest_threshold returns a fresh value and      *)
(* recalculates a stale or missing one under a per-project lock.  The      *)
(* calculation takes a quantile over the hourly event rates of the         *)
(* project's issues.                                                       *)
(*                                                                         *)
(* Specifications: Spec (dataset split), SpecDataclass (the time range of  *)
(* the probe queries), SpecThreshold (the cache and its lock, two          *)
(* processes), SpecContention (the processes on one project, with what     *)
(* each read), SpecProgress (the same under fair scheduling), SpecRate     *)
(* (the rate sample of one issue), SpecColumn (one column reference        *)
(* against the two field catalogues).                                      *)
(***************************************************************************)
EXTENDS Naturals, Sequences, FiniteSets

VARIABLES
    saved_query,                  \* the DiscoverSavedQuery: its query and its dataset / dataset_source columns
    backend,                      \* what run_query yields on each dataset for this query
    pc,                           \* position inside get_and_save_split_decision_for_query
    dry_run,                      \* the dry_run argument of the running / last invocation
    dataset_inferred_from_query,  \* local of the same name (line 307)
    has_errors,                   \* local of the same name (line 322)
    has_transactions,             \* local of the same name (line 346)
    result,                       \* the returned tuple, NoResult while running or after a raise
    log,                          \* labels passed to logger.info by this invocation
    save_calls,                   \* rows written by saved_query.save() in this invocation
    run_query_calls,              \* probe queries executed by this invocation
    entry,                        \* dataset / dataset_source columns when the invocation started
    previous_live                 \* what the latest earlier live invocation that returned left persisted

\* Issue-velocity threshold cache (src/src/sentry/issues/issue_velocity.py).
VARIABLES
    clock,                        \* datetime.utcnow(), in seconds
    ticks,                        \* how many times the clock has advanced
    redis,                        \* the escalation-thresholds redis cluster: key -> entry
    locks,                        \* the lock backend: lock key -> holder and expiry
    position,                     \* each process's place inside get_latest_threshold
    project,                      \* each process's project argument
    data,                         \* what raw_snql_query gave each process (line 136)
    calculated,                   \* what calculate_threshold gave each process (line 156)
    threshold,                    \* each process's local of the same name (lines 188-208)
    events,                       \* what each invocation did: lock attempts, queries, writes, logs
    zero_rows_stored,             \* per project: the cached entry comes from a query that gave no row
    read_after_zero_rows          \* per process: its read found such an entry, on the day it was stored or later

\* What the processes contending for one project's lock saw of its cache entry.
VARIABLES
    generation,                   \* per project: how many times its cached entry was written or has expired
    observed                      \* per process: the generation of the stale or missing entry its read found

\* The time range of the probe queries (dataset_split.py, lines 225-246).
VARIABLES
    query_range,                  \* the "start", "end" and "range" entries of saved_query.query
    snuba_dataclass               \* what get_snuba_dataclass gave: start and end, or an exception

\* One column reference tested against the catalogues (dataset_split.py, lines 111-120).
VARIABLES
    checked_column,               \* the name of the column
    matches                       \* what check_column_matches_dataset gave for each dataset tried

\* The rate samples of the threshold query (issue_velocity.py, lines 58-115).
VARIABLES
    query_time,                   \* now, line 58, in minutes
    hour_counting,                \* how the database counts dateDiff('hour', ...)
    group,                        \* one group_id: when it was first seen, its events of the past week
    sample                        \* the subquery's row for the group, and whether HAVING keeps it

split_vars == <<saved_query, backend, pc, dry_run, dataset_inferred_from_query, has_errors,
                has_transactions, result, log, save_calls, run_query_calls, entry,
                previous_live>>

threshold_vars == <<clock, ticks, redis, locks, position, project, data, calculated,
                    threshold, events, zero_rows_stored, read_after_zero_rows>>

rate_vars == <<query_time, hour_counting, group, sample>>

history_vars == <<generation, observed>>

dataclass_vars == <<query_range, snuba_dataclass>>

column_vars == <<checked_column, matches>>

vars == <<split_vars, threshold_vars, rate_vars, history_vars, dataclass_vars, column_vars>>

None == "None"

\* No value returned (yet): the function is running, or it raised.
NoResult == <<>>

-----------------------------------------------------------------------------
(* Bounds *)

\* Top-level filter predicates plus selected columns of a saved query.
MaxExprs == 2

-----------------------------------------------------------------------------
(* Field catalogues, lines 24-71 *)

TRANSACTION_ONLY_FIELDS ==
    { "duration", "transaction_op", "transaction_status",
      "measurements[lcp]", "measurements[cls]", "measurements[fcp]",
      "measurements[fid]", "measurements[inp]", "measurements[ttfb]",
      "measurements[app_start_cold]", "measurements[app_start_warm]",
      "measurements[frames_total]", "measurements[frames_slow]",
      "measurements[frames_frozen]", "measurements[frames_slow_rate]",
      "measurements[frames_frozen_rate]", "measurements[stall_count]",
      "measurements[stall_total_time]", "measurements[stall_longest_time]",
      "measurements[stall_percentage]", "measurements[time_to_full_display]",
      "measurements[time_to_initial_display]",
      "span_op_breakdowns[ops.browser]", "span_op_breakdowns[ops.http]",
      "span_op_breakdowns[ops.db]", "span_op_breakdowns[ops.resource]",
      "span_op_breakdowns[ops.ui]" }

ERROR_ONLY_FIELDS ==
    { "location", "exception_stacks.type", "exception_stacks.value",
      "exception_stacks.mechanism_type", "exception_stacks.mechanism_handled",
      "received", "exception_main_thread", "exception_frames.abs_path",
      "exception_frames.colno", "exception_frames.filename",
      "exception_frames.function", "exception_frames.in_app",
      "exception_frames.lineno", "exception_frames.module",
      "exception_frames.package", "exception_frames.stack_level" }

\* Dataset.Events / Dataset.Transactions
Events == "Events"
Transactions == "Transactions"

\* DiscoverSavedQueryTypes
DISCOVER == "DISCOVER"
ERROR_EVENTS == "ERROR_EVENTS"
TRANSACTION_LIKE == "TRANSACTION_LIKE"

\* DatasetSourcesTypes
UNKNOWN == "UNKNOWN"
INFERRED == "INFERRED"
FORCED == "FORCED"

-----------------------------------------------------------------------------
(* snuba_sdk expressions, as tagged records *)

Column(name) == [kind |-> "Column", name |-> name]
Literal(value) == [kind |-> "Literal", value |-> value]
Function(parameters) == [kind |-> "Function", parameters |-> parameters]
CurriedFunction(parameters) == [kind |-> "CurriedFunction", parameters |-> parameters]
AliasedExpression(exp) == [kind |-> "AliasedExpression", exp |-> exp]
Condition(lhs, op, rhs) == [kind |-> "Condition", lhs |-> lhs, op |-> op, rhs |-> rhs]
And(conditions) == [kind |-> "And", conditions |-> conditions]
Or(conditions) == [kind |-> "Or", conditions |-> conditions]

-----------------------------------------------------------------------------
(* The heuristics, lines 87-213 *)

ExclusiveFields(dataset) ==
    IF dataset = Transactions THEN TRANSACTION_ONLY_FIELDS ELSE ERROR_ONLY_FIELDS

\* Faulty variant: a literal that spells a field name counts like a column.
check_function_parameter_matches_dataset_by_spelling(function, dataset) ==
    \E i \in DOMAIN function.parameters :
        \/ /\ function.parameters[i].kind = "Column"
           /\ function.parameters[i].name \in ExclusiveFields(dataset)
        \/ /\ function.parameters[i].kind = "Literal"
           /\ function.parameters[i].value \in ExclusiveFields(dataset)

check_function_parameter_matches_dataset(function, dataset) ==
    \E i \in DOMAIN function.parameters :
        /\ function.parameters[i].kind = "Column"
        /\ function.parameters[i].name \in ExclusiveFields(dataset)

check_aliased_expression_matches_dataset(aliased_exp, dataset) ==
    aliased_exp.exp.name \in ExclusiveFields(dataset)

\* Faulty variant: a field of either catalogue matches whatever the dataset.
check_column_matches_dataset_in_any_catalogue(column, dataset) ==
    column.name \in TRANSACTION_ONLY_FIELDS \cup ERROR_ONLY_FIELDS

\* Faulty variant: the dataset hint is ignored and the error-only catalogue always used.
check_column_matches_dataset_ignoring_hint(column, dataset) ==
    column.name \in ERROR_ONLY_FIELDS

check_column_matches_dataset(column, dataset) ==
    column.name \in ExclusiveFields(dataset)

\* Faulty variant: the type != "transaction" case is missing.
check_event_type_condition_eq_only(cond, dataset) ==
    \/ dataset = Events /\ cond.op = "EQ" /\ cond.rhs = "error"
    \/ dataset = Transactions /\ cond.op = "EQ" /\ cond.rhs = "transaction"

check_event_type_condition(cond, dataset) ==
    \/ /\ dataset = Events
       /\ \/ cond.op = "EQ" /\ cond.rhs = "error"
          \/ cond.op = "NEQ" /\ cond.rhs = "transaction"
    \/ dataset = Transactions /\ cond.op = "EQ" /\ cond.rhs = "transaction"

\* Faulty variant: a predicate on "type" is tested like any other column.
check_condition_matches_dataset_without_type_rule(cond, dataset) ==
    IF cond.lhs.kind = "Column"
    THEN check_column_matches_dataset(cond.lhs, dataset)
    ELSE IF cond.lhs.kind \in {"Function", "CurriedFunction"}
         THEN check_function_parameter_matches_dataset(cond.lhs, dataset)
         ELSE FALSE

check_condition_matches_dataset(cond, dataset) ==
    IF cond.lhs.kind = "Column"
    THEN IF cond.lhs.name = "type"
         THEN check_event_type_condition(cond, dataset)
         ELSE check_column_matches_dataset(cond.lhs, dataset)
    ELSE IF cond.lhs.kind \in {"Function", "CurriedFunction"}
         THEN check_function_parameter_matches_dataset(cond.lhs, dataset)
         ELSE FALSE

\* Faulty variant: the children of nested And / Or nodes are collected at every depth.
RECURSIVE top_level_conditions_all_levels(_)
top_level_conditions_all_levels(where) ==
    IF where = <<>> THEN <<>>
    ELSE (IF Head(where).kind \in {"And", "Or"}
          THEN Head(where).conditions \o top_level_conditions_all_levels(Head(where).conditions)
          ELSE <<>>)
         \o top_level_conditions_all_levels(Tail(where))

\* The list built by top_level_conditions.extend(cond.conditions), lines 158-161.
RECURSIVE top_level_conditions(_)
top_level_conditions(where) ==
    IF where = <<>> THEN <<>>
    ELSE (IF Head(where).kind \in {"And", "Or"} THEN Head(where).conditions ELSE <<>>)
         \o top_level_conditions(Tail(where))

check_top_level_conditions_match_dataset(builder, dataset) ==
    \/ \E i \in DOMAIN builder.where :
          /\ builder.where[i].kind = "Condition"
          /\ check_condition_matches_dataset(builder.where[i], dataset)
    \/ LET children == top_level_conditions(builder.where)
       IN  \E i \in DOMAIN children :
              /\ children[i].kind = "Condition"
              /\ check_condition_matches_dataset(children[i], dataset)

\* Faulty variant: aliased expressions and function calls are skipped.
check_selected_columns_match_dataset_columns_only(builder, dataset) ==
    \E i \in DOMAIN builder.columns :
        /\ builder.columns[i].kind = "Column"
        /\ check_column_matches_dataset(builder.columns[i], dataset)

check_selected_columns_match_dataset(builder, dataset) ==
    \E i \in DOMAIN builder.columns :
        LET select_col == builder.columns[i]
        IN  \/ /\ select_col.kind = "Column"
               /\ check_column_matches_dataset(select_col, dataset)
            \/ /\ select_col.kind = "AliasedExpression"
               /\ check_aliased_expression_matches_dataset(select_col, dataset)
            \/ /\ select_col.kind \in {"Function", "CurriedFunction"}
               /\ check_function_parameter_matches_dataset(select_col, dataset)

\* Faulty variant: the transaction checks run before the error checks.
dataset_split_decision_transactions_first(errors_builder, transactions_builder) ==
    IF check_top_level_conditions_match_dataset(transactions_builder, Transactions)
    THEN TRANSACTION_LIKE
    ELSE IF check_selected_columns_match_dataset(transactions_builder, Transactions)
    THEN TRANSACTION_LIKE
    ELSE IF check_top_level_conditions_match_dataset(errors_builder, Events)
    THEN ERROR_EVENTS
    ELSE IF check_selected_columns_match_dataset(errors_builder, Events)
    THEN ERROR_EVENTS
    ELSE None

dataset_split_decision_inferred_from_query(errors_builder, transactions_builder) ==
    IF check_top_level_conditions_match_dataset(errors_builder, Events)
    THEN ERROR_EVENTS
    ELSE IF check_selected_columns_match_dataset(errors_builder, Events)
    THEN ERROR_EVENTS
    ELSE IF check_top_level_conditions_match_dataset(transactions_builder, Transactions)
    THEN TRANSACTION_LIKE
    ELSE IF check_selected_columns_match_dataset(transactions_builder, Transactions)
    THEN TRANSACTION_LIKE
    ELSE None

-----------------------------------------------------------------------------
(* Saved queries and backends the model ranges over *)

ErrorField == "exception_frames.filename"
TransactionField == "measurements[lcp]"
NeutralField == "title"

\* Parameters that are not column references: a literal that spells an
\* error-only field name, and a nested call around an error-only column.
OpaqueParameters == <<Literal(ErrorField), Function(<<Column(ErrorField)>>)>>

FieldConditions ==
    { Condition(Column(n), "EQ", "foo") : n \in {ErrorField, TransactionField} }

TypeConditions ==
    { Condition(Column("type"), op, rhs) : op \in {"EQ", "NEQ"}, rhs \in {"error", "transaction"} }

FunctionConditions ==
    { Condition(Function(<<Column(ErrorField)>>), "GT", "foo"),
      Condition(CurriedFunction(<<Column(TransactionField)>>), "GT", "foo"),
      Condition(Function(OpaqueParameters), "GT", "foo") }

NeutralCondition == Condition(Column(NeutralField), "EQ", "foo")

\* And / Or nodes: children one level deep, and one child two levels deep.
BooleanConditions ==
    { And(<<Condition(Column(ErrorField), "EQ", "foo"), Condition(Column(TransactionField), "EQ", "foo")>>),
      Or(<<NeutralCondition, Condition(Column("type"), "EQ", "error")>>),
      Or(<<NeutralCondition, And(<<NeutralCondition, Condition(Column(ErrorField), "EQ", "foo")>>)>>) }

WhereNodes == FieldConditions \cup TypeConditions \cup FunctionConditions \cup BooleanConditions

SelectNodes ==
    { Column(n) : n \in {ErrorField, TransactionField, NeutralField} }
    \cup { AliasedExpression(Column(ErrorField)),
           Function(<<Column(ErrorField)>>),
           CurriedFunction(<<Column(NeutralField), Column(TransactionField)>>),
           Function(OpaqueParameters) }

Queries ==
    UNION { { [query |-> w, fields |-> c] : w \in [1..n[1] -> WhereNodes], c \in [1..n[2] -> SelectNodes] }
            : n \in { m \in (0..MaxExprs) \X (0..MaxExprs) : m[1] + m[2] <= MaxExprs } }

\* snuba exceptions raised by run_query
QueryIllegalTypeOfArgument == "QueryIllegalTypeOfArgument"
UnqualifiedQueryError == "UnqualifiedQueryError"
SnubaError == "SnubaError"

\* What a backend holds for the query: it raises, or it has 0 or 1 matching rows.
BackendResults ==
    { [raises |-> None, rows |-> n] : n \in 0..1 }
    \cup { [raises |-> e, rows |-> 0] : e \in {QueryIllegalTypeOfArgument, UnqualifiedQueryError, SnubaError} }

\* Label and provenance a saved query may carry before classification.
PersistedBefore ==
    { [dataset |-> DISCOVER, dataset_source |-> UNKNOWN],
      [dataset |-> TRANSACTION_LIKE, dataset_source |-> INFERRED] }

-----------------------------------------------------------------------------
(* get_and_save_split_decision_for_query, lines 270-384 *)

QueryBuilder(dataset, query, selected_columns, limit) ==
    [dataset |-> dataset, where |-> query, columns |-> selected_columns, limit |-> limit]

\* Faulty variant: the first builder takes its dataset from the persisted label.
errors_builder_on_saved_dataset ==
    QueryBuilder(IF saved_query.dataset = TRANSACTION_LIKE THEN Transactions ELSE Events,
                 saved_query.query.query, saved_query.query.fields, 1)

\* lines 287-295
errors_builder ==
    QueryBuilder(Events, saved_query.query.query, saved_query.query.fields, 1)

\* Faulty variant: the second builder is configured on the error-events dataset.
transactions_builder_on_events ==
    QueryBuilder(Events, saved_query.query.query, saved_query.query.fields, 1)

\* lines 297-305
transactions_builder ==
    QueryBuilder(Transactions, saved_query.query.query, saved_query.query.fields, 1)

Returned == {"idle", "done", "raised"}

\* A per-invocation history: empty when the invocation starts.
ThisInvocation(history) == IF pc \in Returned THEN <<>> ELSE history

\* Faulty variant: the label is not assigned before save().
save_split_decision_for_query_source_only(split_decision, dataset_source) ==
    /\ saved_query' =
          [saved_query EXCEPT
              !.dataset_source = IF dataset_source # None THEN dataset_source ELSE @]
    /\ save_calls' = Append(ThisInvocation(save_calls),
                            [dataset |-> saved_query'.dataset,
                             dataset_source |-> saved_query'.dataset_source])

\* lines 74-84
save_split_decision_for_query(split_decision, dataset_source) ==
    /\ saved_query' =
          [saved_query EXCEPT
              !.dataset = IF split_decision # None THEN split_decision ELSE @,
              !.dataset_source = IF dataset_source # None THEN dataset_source ELSE @]
    /\ save_calls' = Append(ThisInvocation(save_calls),
                            [dataset |-> saved_query'.dataset,
                             dataset_source |-> saved_query'.dataset_source])

\* The "if dry_run: logger.info(...) else: save_split_decision_for_query(...); return"
\* shape shared by lines 311-320, 333-344, 357-371 and 373-384.
\* Faulty variant: the dry run saves as well.
LogOrSave_saving_on_dry_run(dry, logged, label, source, probed) ==
    /\ save_split_decision_for_query(label, source)
    /\ log' = IF dry THEN Append(ThisInvocation(log), logged) ELSE ThisInvocation(log)
    /\ result' = <<label, probed>>
    /\ pc' = "done"

LogOrSave(dry, logged, label, source, probed) ==
    /\ IF dry
       THEN /\ log' = Append(ThisInvocation(log), logged)
            /\ save_calls' = ThisInvocation(save_calls)
            /\ UNCHANGED saved_query
       ELSE /\ save_split_decision_for_query(label, source)
            /\ log' = ThisInvocation(log)
    /\ result' = <<label, probed>>
    /\ pc' = "done"

\* lines 311-320
ReturnInferred(dry, inferred) ==
    LogOrSave(dry, inferred, inferred, INFERRED, FALSE)

\* lines 333-344
ReturnErrorsFound ==
    LogOrSave(dry_run, ERROR_EVENTS, ERROR_EVENTS, INFERRED, TRUE)

\* lines 357-371
ReturnTransactionsFound ==
    LogOrSave(dry_run, TRANSACTION_LIKE, TRANSACTION_LIKE, INFERRED, TRUE)

\* Faulty variant: the forced default is returned as if no probe had run.
ReturnForcedDefault_unprobed ==
    LogOrSave(dry_run, TRANSACTION_LIKE, ERROR_EVENTS, FORCED, FALSE)

\* Faulty variant: the forced default is saved with provenance INFERRED.
ReturnForcedDefault_as_inferred ==
    LogOrSave(dry_run, TRANSACTION_LIKE, ERROR_EVENTS, INFERRED, TRUE)

\* lines 373-384: the dry run logs TRANSACTION_LIKE, the live run saves ERROR_EVENTS.
ReturnForcedDefault ==
    LogOrSave(dry_run, TRANSACTION_LIKE, ERROR_EVENTS, FORCED, TRUE)

\* Faulty variant: every exception of a probe is swallowed.
Caught_everything(exception) == TRUE

\* Faulty variant: UnqualifiedQueryError is not caught.
Caught_illegal_type_only(exception) == exception = QueryIllegalTypeOfArgument

\* except (snuba.QueryIllegalTypeOfArgument, snuba.UnqualifiedQueryError): pass
Caught(exception) == exception \in {QueryIllegalTypeOfArgument, UnqualifiedQueryError}

\* Faulty variant: >= 0 in place of > 0.
has_data_or_empty(results) == results.raises = None /\ results.rows >= 0

\* len(results["data"]) > 0, inside the try: lines 329 and 353
has_data(results) == results.raises = None /\ results.rows > 0

\* builder.process_results(builder.run_query(...)): lines 324-328 and 348-352
run_query(builder) == backend[builder.dataset]

\* lines 270-320: build both query builders, run the heuristics, return on a match.
Call(dry) ==
    /\ pc \in Returned
    /\ dry_run' = dry
    /\ entry' = [dataset |-> saved_query.dataset, dataset_source |-> saved_query.dataset_source]
    /\ previous_live' =
          IF pc = "done" /\ ~dry_run
          THEN [returned |-> TRUE, dataset |-> saved_query.dataset,
                dataset_source |-> saved_query.dataset_source]
          ELSE previous_live
    /\ run_query_calls' = <<>>
    /\ has_errors' = FALSE
    /\ has_transactions' = FALSE
    /\ dataset_inferred_from_query' =
          dataset_split_decision_inferred_from_query(errors_builder, transactions_builder)
    /\ IF dataset_inferred_from_query' # None
       THEN ReturnInferred(dry, dataset_inferred_from_query')
       ELSE /\ pc' = "probe_errors"
            /\ result' = NoResult
            /\ log' = <<>>
            /\ save_calls' = <<>>
            /\ UNCHANGED saved_query
    /\ UNCHANGED <<backend, threshold_vars, rate_vars, history_vars,
                   dataclass_vars, column_vars>>

\* lines 322-344: the error-events probe.
ProbeErrors ==
    /\ pc = "probe_errors"
    /\ run_query_calls' = Append(run_query_calls, errors_builder)
    /\ LET error_results == run_query(errors_builder) IN
       IF error_results.raises # None /\ ~Caught(error_results.raises)
       THEN /\ pc' = "raised"
            /\ UNCHANGED <<saved_query, has_errors, result, log, save_calls>>
       ELSE /\ has_errors' = has_data(error_results)
            /\ IF has_errors'
               THEN ReturnErrorsFound
               ELSE /\ pc' = "probe_transactions"
                    /\ UNCHANGED <<saved_query, result, log, save_calls>>
    /\ UNCHANGED <<backend, dry_run, dataset_inferred_from_query, has_transactions, entry,
                   previous_live, threshold_vars, rate_vars, history_vars,
                   dataclass_vars, column_vars>>

\* lines 346-384: the transaction probe, then the forced default.
ProbeTransactions ==
    /\ pc = "probe_transactions"
    /\ run_query_calls' = Append(run_query_calls, transactions_builder)
    /\ LET transaction_results == run_query(transactions_builder) IN
       IF transaction_results.raises # None /\ ~Caught(transaction_results.raises)
       THEN /\ pc' = "raised"
            /\ UNCHANGED <<saved_query, has_transactions, result, log, save_calls>>
       ELSE /\ has_transactions' = has_data(transaction_results)
            /\ IF has_transactions'
               THEN ReturnTransactionsFound
               ELSE ReturnForcedDefault
    /\ UNCHANGED <<backend, dry_run, dataset_inferred_from_query, has_errors, entry,
                   previous_live, threshold_vars, rate_vars, history_vars,
                   dataclass_vars, column_vars>>

SplitInit ==
    /\ saved_query \in { [query |-> q, dataset |-> p.dataset, dataset_source |-> p.dataset_source]
                         : q \in Queries, p \in PersistedBefore }
    /\ backend \in [{Events, Transactions} -> BackendResults]
    /\ pc = "idle"
    /\ dry_run = FALSE
    /\ dataset_inferred_from_query = None
    /\ has_errors = FALSE
    /\ has_transactions = FALSE
    /\ result = NoResult
    /\ log = <<>>
    /\ save_calls = <<>>
    /\ run_query_calls = <<>>
    /\ entry = [dataset |-> saved_query.dataset, dataset_source |-> saved_query.dataset_source]
    /\ previous_live = [returned |-> FALSE, dataset |-> None, dataset_source |-> None]

-----------------------------------------------------------------------------
(***************************************************************************)
(* Issue-velocity threshold cache                                          *)
(* (src/src/sentry/issues/issue_velocity.py).                              *)
(*                                                                         *)
(* Processes call get_latest_threshold for a project.  A fresh cached      *)
(* value is returned as it is; a stale or missing one is recomputed under  *)
(* a per-project lock of bounded duration and written back with the date.  *)
(***************************************************************************)

(* Bounds *)

\* How many times the clock advances.
MaxTicks == 2

Procs == {"p1", "p2"}
Projects == {1, 2}

\* The projects each process is asked about: "p1" any, "p2" the first one.
\* Both meet on project 1 and work apart on projects 2 and 1.
Assigned(p) == IF p = "p1" THEN Projects ELSE {1}

(* Module constants, lines 41-49 *)

THRESHOLD_QUANTILE == [name |-> "p99", function |-> "quantile(0.99)"]
WEEK_IN_HOURS == 7 * 24
DEFAULT_TTL == 48 * 60 * 60
NONE_TTL == 10 * 60
THRESHOLD_KEY(project_id) == <<"new-issue-escalation-threshold", project_id>>
STALE_DATE_KEY(project_id) == <<"new-issue-escalation-threshold-stale-date", project_id>>

\* The duration argument of locks.get, line 193.
duration == 10

(* Python values.  Numbers are whole; Python's 0 and 0.0 are one value. *)

NoneValue == [type |-> "NoneType"]
Float(n) == [type |-> "float", value |-> n]
NaN == [type |-> "float", nan |-> TRUE]
Bytes(digits) == [type |-> "bytes", digits |-> digits]

\* math.isnan
isnan(x) == x = NaN

\* Truth value of a redis reply: None and the empty string are false.
Truthy(x) == x # NoneValue /\ x.digits # <<>>

\* The decimal text redis stores for a number, and reading it back.
RECURSIVE Digits(_)
Digits(n) == IF n < 10 THEN <<n>> ELSE Append(Digits(n \div 10), n % 10)

RECURSIVE DecimalValue(_)
DecimalValue(digits) ==
    IF digits = <<>> THEN 0
    ELSE DecimalValue(SubSeq(digits, 1, Len(digits) - 1)) * 10 + digits[Len(digits)]

encode(n) == Bytes(Digits(n))
int(text) == DecimalValue(text.digits)
float(text) == Float(DecimalValue(text.digits))

(* Dates.  The clock counts seconds from 2024-01-31 00:00:00 UTC. *)

SecondsPerDay == 24 * 60 * 60

\* date.strftime(DATE_FORMAT), "%Y%m%d", for the days the clock can reach.
strftime(date) ==
    LET day == date \div SecondsPerDay IN
    IF day = 0 THEN <<2, 0, 2, 4, 0, 1, 3, 1>>
    ELSE <<2, 0, 2, 4, 0, 2, day \div 10, day % 10>>

convert_date_to_int(date) == DecimalValue(strftime(date))

(* Redis and the lock backend *)

RedisKeys == { THRESHOLD_KEY(i) : i \in Projects } \cup { STALE_DATE_KEY(i) : i \in Projects }

\* client.mget(keys): None for a key that does not exist.
mget(store, keys) ==
    [ i \in DOMAIN keys |-> IF store[keys[i]] = NoneValue THEN NoneValue ELSE store[keys[i]].value ]

\* p.set(key, value, ex=ttl)
set(store, key, value, ex) ==
    [store EXCEPT ![key] = [value |-> encode(value), expires_at |-> clock + ex]]

\* What is left of a keyspace at a given time: expired keys are gone.
Unexpired(store, time) ==
    [ k \in DOMAIN store |->
        IF store[k] # NoneValue /\ store[k].expires_at <= time THEN NoneValue ELSE store[k] ]

\* Faulty variant: one lock key for every project.
lock_key_shared(project_id) == <<"calculate_project_thresholds", 1>>

\* The lock key of a project, line 192.
lock_key(project_id) == <<"calculate_project_thresholds", project_id>>

LockKeys == { lock_key(i) : i \in Projects }

(* Query results *)

\* What raw_snql_query(request)["data"] can be: no row, one row with the
\* quantile (a number, or NaN over no samples), one row without it; or the
\* query fails.
SnubaResponses ==
    { [raises |-> None, data |-> <<>>],
      [raises |-> None, data |-> << [p99 |-> Float(12)] >>],
      [raises |-> None, data |-> << [p99 |-> NaN] >>],
      [raises |-> None, data |-> << [p90 |-> Float(12)] >>],
      [raises |-> SnubaError, data |-> <<>>] }

NotCalled == [type |-> "not called"]
Raised(exception) == [type |-> "raised", exception |-> exception]

KeyError == "KeyError"

\* Faulty variant: the row is read outside the try block.
calculate_threshold_unguarded(response) ==
    IF response.raises # None
    THEN [returns |-> NoneValue, raises |-> response.raises, logged |-> FALSE]
    ELSE IF Len(response.data) = 0
    THEN [returns |-> NoneValue, raises |-> None, logged |-> FALSE]
    ELSE IF THRESHOLD_QUANTILE.name \in DOMAIN response.data[1]
         THEN [returns |-> response.data[1][THRESHOLD_QUANTILE.name], raises |-> None,
               logged |-> FALSE]
         ELSE [returns |-> NoneValue, raises |-> KeyError, logged |-> FALSE]

\* lines 136-147: what calculate_threshold returns or raises for a response
\* of the query, and whether it logged the result's shape.
calculate_threshold(response) ==
    IF response.raises # None
    THEN [returns |-> NoneValue, raises |-> response.raises, logged |-> FALSE]
    ELSE IF Len(response.data) = 0
    THEN [returns |-> NoneValue, raises |-> None, logged |-> FALSE]
    ELSE IF THRESHOLD_QUANTILE.name \in DOMAIN response.data[1]
         THEN [returns |-> response.data[1][THRESHOLD_QUANTILE.name], raises |-> None,
               logged |-> FALSE]
         ELSE [returns |-> NoneValue, raises |-> None, logged |-> TRUE]

\* Faulty variant: an undetermined calculation is stored for the normal time-to-live.
threshold_and_ttl_always_default(calculation) ==
    IF calculation = NoneValue \/ isnan(calculation)
    THEN [threshold |-> Float(0), ttl |-> DEFAULT_TTL]
    ELSE [threshold |-> calculation, ttl |-> DEFAULT_TTL]

\* lines 157-166: the value and the time-to-live update_threshold stores.
threshold_and_ttl(calculation) ==
    IF calculation = NoneValue THEN [threshold |-> Float(0), ttl |-> NONE_TTL]
    ELSE IF isnan(calculation) THEN [threshold |-> Float(0), ttl |-> DEFAULT_TTL]
    ELSE [threshold |-> calculation, ttl |-> DEFAULT_TTL]

\* Faulty variant: the date is always kept for the normal time-to-live.
pipeline_execute_date_outlives_value(store, threshold_key, stale_date_key, value, ttl) ==
    set(set(store, threshold_key, value.value, ttl),
        stale_date_key, convert_date_to_int(clock), DEFAULT_TTL)

\* lines 168-172: both keys are set in one pipeline.
pipeline_execute(store, threshold_key, stale_date_key, value, ttl) ==
    set(set(store, threshold_key, value.value, ttl),
        stale_date_key, convert_date_to_int(clock), ttl)

\* Faulty variant: the stored date is never compared with today's.
cache_is_stale_ignoring_date(cached_threshold, stale_date, now) ==
    stale_date = NoneValue \/ cached_threshold = NoneValue

\* Faulty variant: an entry stored yesterday still counts as fresh.
cache_is_stale_a_day_late(cached_threshold, stale_date, now) ==
    \/ Truthy(stale_date) /\ int(stale_date) + 1 < now
    \/ stale_date = NoneValue
    \/ cached_threshold = NoneValue

\* Faulty variant: an entry stored today counts as stale.
cache_is_stale_until_tomorrow(cached_threshold, stale_date, now) ==
    \/ Truthy(stale_date) /\ int(stale_date) <= now
    \/ stale_date = NoneValue
    \/ cached_threshold = NoneValue

\* line 190
cache_is_stale(cached_threshold, stale_date, now) ==
    \/ Truthy(stale_date) /\ int(stale_date) < now
    \/ stale_date = NoneValue
    \/ cached_threshold = NoneValue

\* Faulty variant: without a value read before, None is returned.
stale_value_or_none(cached_threshold) ==
    IF Truthy(cached_threshold) THEN float(cached_threshold) ELSE NoneValue

\* Faulty variant: the value read before is dropped.
stale_value_always_zero(cached_threshold) == Float(0)

\* line 204
stale_value(cached_threshold) ==
    IF Truthy(cached_threshold) THEN float(cached_threshold) ELSE Float(0)

(* get_latest_threshold, one process at a time *)

ThresholdReturned == {"idle", "done", "raised"}

\* lines 182-190 and 205-208: read both keys; return a fresh value, or go for the lock.
GetLatestThreshold(p, proj) ==
    /\ position[p] \in ThresholdReturned
    /\ project' = [project EXCEPT ![p] = proj]
    /\ LET keys == <<THRESHOLD_KEY(proj), STALE_DATE_KEY(proj)>>
           cache_results == mget(redis, keys)
           now == convert_date_to_int(clock)
       IN  IF cache_is_stale(cache_results[1], cache_results[2], now)
           THEN /\ position' = [position EXCEPT ![p] = "acquire"]
                /\ threshold' = [threshold EXCEPT ![p] = cache_results[1]]
           ELSE /\ position' = [position EXCEPT ![p] = "done"]
                /\ threshold' = [threshold EXCEPT ![p] = float(cache_results[1])]
    /\ data' = [data EXCEPT ![p] = NotCalled]
    /\ calculated' = [calculated EXCEPT ![p] = NotCalled]
    /\ events' = [events EXCEPT ![p] = <<"mget">>]
    /\ read_after_zero_rows' = [read_after_zero_rows EXCEPT ![p] =
          IF ~zero_rows_stored[proj] THEN "no"
          ELSE IF redis[STALE_DATE_KEY(proj)].value.digits = strftime(clock)
               THEN "same day" ELSE "later day"]
    /\ UNCHANGED <<clock, ticks, redis, locks, zero_rows_stored, split_vars, rate_vars, dataclass_vars, column_vars>>

\* lines 191-204: lock.acquire() takes the lock, or raises UnableToAcquireLock
\* at once and the value read before is returned.
AcquireLock(p) ==
    /\ position[p] = "acquire"
    /\ LET key == lock_key(project[p]) IN
       IF locks[key] = NoneValue
       THEN /\ locks' = [locks EXCEPT ![key] = [holder |-> p, expires_at |-> clock + duration]]
            /\ position' = [position EXCEPT ![p] = "update"]
            /\ events' = [events EXCEPT ![p] = Append(@, "lock.acquire")]
            /\ UNCHANGED threshold
       ELSE /\ position' = [position EXCEPT ![p] = "done"]
            /\ threshold' = [threshold EXCEPT ![p] = stale_value(@)]
            /\ events' = [events EXCEPT ![p] = @ \o <<"UnableToAcquireLock", "logger.warning">>]
            /\ UNCHANGED locks
    /\ UNCHANGED <<clock, ticks, redis, project, data, calculated, zero_rows_stored,
                   read_after_zero_rows, split_vars, rate_vars, dataclass_vars, column_vars>>

\* lines 150-174 with lines 136-147: run the query, store value and date.
\* A failing query propagates through update_threshold.
UpdateThreshold(p) ==
    /\ position[p] = "update"
    /\ \E response \in SnubaResponses :
          /\ data' = [data EXCEPT ![p] = response]
          /\ LET calculation == calculate_threshold(response) IN
             IF calculation.raises # None
             THEN /\ calculated' = [calculated EXCEPT ![p] = Raised(calculation.raises)]
                  /\ events' = [events EXCEPT ![p] = Append(@, "raw_snql_query")]
                  /\ UNCHANGED <<redis, threshold, zero_rows_stored>>
             ELSE LET stored == threshold_and_ttl(calculation.returns)
                  IN  /\ calculated' = [calculated EXCEPT ![p] = calculation.returns]
                      /\ events' = [events EXCEPT ![p] =
                            @ \o <<"raw_snql_query">>
                              \o (IF calculation.logged THEN <<"logger.exception">> ELSE <<>>)
                              \o (IF calculation.returns = NoneValue THEN <<"logger.error">> ELSE <<>>)
                              \o <<"pipeline.execute">>]
                      /\ redis' = pipeline_execute(redis, THRESHOLD_KEY(project[p]),
                                                   STALE_DATE_KEY(project[p]),
                                                   stored.threshold, stored.ttl)
                      /\ threshold' = [threshold EXCEPT ![p] = stored.threshold]
                      /\ zero_rows_stored' =
                            [zero_rows_stored EXCEPT ![project[p]] = response.data = <<>>]
    /\ position' = [position EXCEPT ![p] = "release"]
    /\ UNCHANGED <<clock, ticks, locks, project, read_after_zero_rows, split_vars, rate_vars, dataclass_vars, column_vars>>

\* Faulty variant: the lock is left to run out.
ReleaseLock_keeping_lock(p) ==
    /\ position[p] = "release"
    /\ position' = [position EXCEPT ![p] =
                      IF "exception" \in DOMAIN calculated[p] THEN "raised" ELSE "done"]
    /\ UNCHANGED <<clock, ticks, redis, locks, project, data, calculated, threshold, events,
                   zero_rows_stored, read_after_zero_rows, split_vars, rate_vars, dataclass_vars, column_vars>>

\* Faulty variant: the lock is released only when update_threshold returns.
ReleaseLock_on_return_only(p) ==
    /\ position[p] = "release"
    /\ LET key == lock_key(project[p]) IN
       locks' = IF /\ locks[key] # NoneValue /\ locks[key].holder = p
                   /\ "exception" \notin DOMAIN calculated[p]
                THEN [locks EXCEPT ![key] = NoneValue]
                ELSE locks
    /\ position' = [position EXCEPT ![p] =
                      IF "exception" \in DOMAIN calculated[p] THEN "raised" ELSE "done"]
    /\ UNCHANGED <<clock, ticks, redis, project, data, calculated, threshold, events,
                   zero_rows_stored, read_after_zero_rows, split_vars, rate_vars, dataclass_vars, column_vars>>

\* The end of the with block, line 197: the lock is released if this process
\* still holds it, and the value or the exception goes to the caller.
ReleaseLock(p) ==
    /\ position[p] = "release"
    /\ LET key == lock_key(project[p]) IN
       locks' = IF locks[key] # NoneValue /\ locks[key].holder = p
                THEN [locks EXCEPT ![key] = NoneValue]
                ELSE locks
    /\ position' = [position EXCEPT ![p] =
                      IF "exception" \in DOMAIN calculated[p] THEN "raised" ELSE "done"]
    /\ UNCHANGED <<clock, ticks, redis, project, data, calculated, threshold, events,
                   zero_rows_stored, read_after_zero_rows, split_vars, rate_vars, dataclass_vars, column_vars>>

TickSeconds == {5 * 60, SecondsPerDay}

\* Time passes: keys and locks whose time is up are gone.
Tick(seconds) ==
    /\ ticks < MaxTicks
    /\ ticks' = ticks + 1
    /\ clock' = clock + seconds
    /\ redis' = Unexpired(redis, clock')
    /\ locks' = Unexpired(locks, clock')
    /\ zero_rows_stored' =
          [proj \in Projects |-> zero_rows_stored[proj] /\ redis'[THRESHOLD_KEY(proj)] # NoneValue]
    /\ UNCHANGED <<position, project, data, calculated, threshold, events,
                   read_after_zero_rows, split_vars, rate_vars, dataclass_vars, column_vars>>

\* Five minutes before midnight, nothing cached, nobody running.
ThresholdInit ==
    /\ clock = SecondsPerDay - 5 * 60
    /\ ticks = 0
    /\ redis = [k \in RedisKeys |-> NoneValue]
    /\ locks = [k \in LockKeys |-> NoneValue]
    /\ position = [p \in Procs |-> "idle"]
    /\ project = [p \in Procs |-> 1]
    /\ data = [p \in Procs |-> NotCalled]
    /\ calculated = [p \in Procs |-> NotCalled]
    /\ threshold = [p \in Procs |-> NoneValue]
    /\ events = [p \in Procs |-> <<>>]
    /\ zero_rows_stored = [proj \in Projects |-> FALSE]
    /\ read_after_zero_rows = [p \in Procs |-> "no"]

\* A saved query at rest beside the cache.
SplitAtRest ==
    /\ saved_query = [query |-> [query |-> <<>>, fields |-> <<>>],
                      dataset |-> DISCOVER, dataset_source |-> UNKNOWN]
    /\ backend = [d \in {Events, Transactions} |-> [raises |-> None, rows |-> 0]]
    /\ SplitInit

-----------------------------------------------------------------------------
(***************************************************************************)
(* The rate samples of calculate_threshold, lines 58-115: one row per      *)
(* issue with its hourly event rate, kept or dropped by the HAVING clause. *)
(* Times are in minutes.                                                   *)
(***************************************************************************)

(* Bounds *)

\* Events of one issue in the past week.
MaxEvents == 3

MinutesPerDay == 24 * 60

\* lines 59-61
one_hour_ago(t) == t - 60
one_week_ago(t) == t - 7 * MinutesPerDay
ninety_days_ago(t) == t - 90 * MinutesPerDay

\* dateDiff('hour', startdate, enddate), line 89: the hour boundaries between
\* the two, or the whole hours elapsed.
HourCountings == {"boundaries", "elapsed"}

dateDiff(startdate, enddate, counting) ==
    IF counting = "boundaries"
    THEN (enddate \div 60) - (startdate \div 60)
    ELSE (enddate - startdate) \div 60

\* Faulty variant: the age in hours divides, however old the issue.
hourly_event_rate_by_age_only(first_seen, past_week_event_count, t, counting) ==
    [dividend |-> past_week_event_count, divisor |-> dateDiff(first_seen, t, counting)]

\* lines 75-95: the dividend and the divisor of hourly_event_rate.
hourly_event_rate(first_seen, past_week_event_count, t, counting) ==
    IF first_seen < one_week_ago(t)
    THEN [dividend |-> past_week_event_count, divisor |-> WEEK_IN_HOURS]
    ELSE [dividend |-> past_week_event_count, divisor |-> dateDiff(first_seen, t, counting)]

\* Faulty variant: issues first seen within the last hour are kept.
having_count_only(past_week_event_count, first_seen, t) ==
    past_week_event_count > 1

\* lines 105-112
having(past_week_event_count, first_seen, t) ==
    /\ past_week_event_count > 1
    /\ first_seen < one_hour_ago(t)

(* Inputs *)

\* The query runs on the hour, at half past, or a minute before the next.
QueryTimes == { 100 * MinutesPerDay + m : m \in {0, 30, 59} }

\* Ages of an issue, in minutes, around one hour, two hours and one week.
Ages == {1, 30, 59, 60, 61, 119, 120}
        \cup {7 * MinutesPerDay - 1, 7 * MinutesPerDay, 7 * MinutesPerDay + 1, 30 * MinutesPerDay}

\* lines 66-74 and 98-104: the first event lies in the last ninety days and
\* before now; it is one of the past week's events when it is that recent.
Groups(t) ==
    { [first_seen |-> t - age, past_week_event_count |-> n] :
        age \in { a \in Ages : t - a >= ninety_days_ago(t) /\ t - a < t },
        n \in 0 .. MaxEvents }

WellFormed(g, t) == g.first_seen >= one_week_ago(t) => g.past_week_event_count >= 1

\* lines 63-115: the row of the group, and whether it is among the samples.
Subquery ==
    /\ sample = NotCalled
    /\ sample' = [first_seen |-> group.first_seen,
                  past_week_event_count |-> group.past_week_event_count,
                  hourly_event_rate |-> hourly_event_rate(group.first_seen,
                                           group.past_week_event_count, query_time,
                                           hour_counting),
                  admitted |-> having(group.past_week_event_count, group.first_seen,
                                      query_time)]
    /\ UNCHANGED <<query_time, hour_counting, group, split_vars, threshold_vars, history_vars,
                   dataclass_vars, column_vars>>

RateInit ==
    /\ query_time \in QueryTimes
    /\ hour_counting \in HourCountings
    /\ group \in { g \in Groups(query_time) : WellFormed(g, query_time) }
    /\ sample = NotCalled

\* No threshold query under way.
RateAtRest ==
    /\ query_time = 100 * MinutesPerDay
    /\ hour_counting = "boundaries"
    /\ group = [first_seen |-> query_time - 120, past_week_event_count |-> 2]
    /\ RateInit

(***************************************************************************)
(* get_snuba_dataclass, lines 225-246: the time range both builders get.   *)
(* Dates are days since 2024-01-01.                                        *)
(***************************************************************************)

Datetime(day) == [type |-> "datetime", day |-> day]

\* datetime.now(), as the date helpers see it: 2024-04-10.
UtcNow == 100

\* The organization's event retention, in days.
RetentionDays == 90

InvalidParams == "InvalidParams"

\* The timestamps a saved query may carry, with the day each names.
KnownTimestamps ==
    { <<"2024-01-02T00:00:00", 1>>, <<"2024-04-01T00:00:00", 91>>, <<"2024-04-05T00:00:00", 95>> }

\* sentry.utils.dates.parse_timestamp: None for a text that is not a timestamp.
parse_timestamp(value) ==
    IF \E known \in KnownTimestamps : known[1] = value
    THEN Datetime((CHOOSE known \in KnownTimestamps : known[1] = value)[2])
    ELSE NoneValue

\* The relative periods a saved query may carry, with their days.
KnownPeriods == { <<"1d", 1>>, <<"7d", 7>>, <<"14d", 14>> }

\* sentry.api.utils.get_date_range_from_stats_period({"statsPeriod": period}):
\* the trailing period up to now; InvalidParams for a text that is not a period.
get_date_range_from_stats_period(period) ==
    IF \E known \in KnownPeriods : known[1] = period
    THEN LET days == (CHOOSE known \in KnownPeriods : known[1] = period)[2]
         IN  [raises |-> None, start |-> Datetime(UtcNow - days), end |-> Datetime(UtcNow)]
    ELSE [raises |-> InvalidParams, start |-> NoneValue, end |-> NoneValue]

\* sentry.utils.dates.outside_retention_with_modified_start: the start is
\* moved up to the retention boundary; expired when it then lies after the end.
outside_retention_with_modified_start(start, end) ==
    LET boundary == UtcNow - RetentionDays
        modified_start == IF start.day < boundary THEN Datetime(boundary) ELSE start
    IN  [expired |-> modified_start.day > end.day, start |-> modified_start]

\* start and end of params and filter_params, lines 251-262.
SnubaParams(start, end) == [type |-> "SnubaParams", start |-> start, end |-> end]

\* lines 228-246.  The subscript query["end"] raises KeyError when the key is absent.
get_snuba_dataclass(query) ==
    LET default == get_date_range_from_stats_period("7d") IN
    IF "start" \in DOMAIN query
    THEN IF "end" \notin DOMAIN query
         THEN Raised(KeyError)
         ELSE LET start == parse_timestamp(query["start"])
                  end == parse_timestamp(query["end"])
              IN  IF start # NoneValue /\ end # NoneValue
                  THEN IF outside_retention_with_modified_start(start, end).expired
                       THEN SnubaParams(default.start, default.end)
                       ELSE SnubaParams(start, end)
                  ELSE SnubaParams(start, end)
    ELSE IF "range" \in DOMAIN query
         THEN LET period == get_date_range_from_stats_period(query["range"])
              IN  IF period.raises = InvalidParams
                  THEN SnubaParams(default.start, default.end)
                  ELSE SnubaParams(period.start, period.end)
         ELSE SnubaParams(default.start, default.end)

Timestamps == { known[1] : known \in KnownTimestamps } \cup {"yesterday"}
StatsPeriods == {"1d", "14d", "abc"}

\* The time entries a saved query may carry: each key present or not.
QueryRanges ==
    { query \in UNION { [keys -> Timestamps \cup StatsPeriods] : keys \in SUBSET {"start", "end", "range"} } :
        \A key \in DOMAIN query :
            query[key] \in (IF key = "range" THEN StatsPeriods ELSE Timestamps) }

\* line 279
GetSnubaDataclass ==
    /\ snuba_dataclass = NotCalled
    /\ snuba_dataclass' = get_snuba_dataclass(query_range)
    /\ UNCHANGED <<query_range, split_vars, threshold_vars, rate_vars, history_vars, column_vars>>

DataclassInit ==
    /\ query_range \in QueryRanges
    /\ snuba_dataclass = NotCalled

\* A saved query without time entries.
DataclassAtRest ==
    /\ query_range = [key \in {} |-> "7d"]
    /\ DataclassInit

(***************************************************************************)
(* check_column_matches_dataset, lines 111-120, on every field of the two  *)
(* catalogues and on fields of neither.                                    *)
(***************************************************************************)

\* Fields of neither catalogue, the discriminator among them.
OtherFields == {"title", "type", "timestamp", "message", "transaction.duration"}

FieldNames == TRANSACTION_ONLY_FIELDS \cup ERROR_ONLY_FIELDS \cup OtherFields

\* check_column_matches_dataset(Column(name), dataset), for a dataset not tried yet.
CheckColumn(dataset) ==
    /\ dataset \notin DOMAIN matches
    /\ matches' = [d \in DOMAIN matches \cup {dataset} |->
                      IF d = dataset
                      THEN check_column_matches_dataset(Column(checked_column), dataset)
                      ELSE matches[d]]
    /\ UNCHANGED <<checked_column, split_vars, threshold_vars, rate_vars, history_vars,
                   dataclass_vars>>

ColumnInit ==
    /\ checked_column \in FieldNames
    /\ matches = [d \in {} |-> FALSE]

\* No column under test.
ColumnAtRest ==
    /\ checked_column = NeutralField
    /\ ColumnInit

\* Nothing observed yet.
HistoryInit ==
    /\ generation = [proj \in Projects |-> 0]
    /\ observed = [p \in Procs |-> <<>>]

\* The cached entry of a project changes: it is written, or its time is up.
EntryChanges(proj) ==
    \/ redis'[THRESHOLD_KEY(proj)] # redis[THRESHOLD_KEY(proj)]
    \/ redis'[STALE_DATE_KEY(proj)] # redis[STALE_DATE_KEY(proj)]

Generations ==
    generation' = [proj \in Projects |->
                      IF EntryChanges(proj) THEN generation[proj] + 1 ELSE generation[proj]]

\* p's read of the cache: which entry it found stale or missing, if it did.
Observes(p) ==
    observed' = [observed EXCEPT ![p] =
                    IF position'[p] = "acquire" THEN <<generation[project'[p]]>> ELSE <<>>]

-----------------------------------------------------------------------------
(* Specifications *)

\* The threshold cache, beside a saved query at rest.
InitThreshold == SplitAtRest /\ ThresholdInit /\ RateAtRest /\ HistoryInit /\ DataclassAtRest
    /\ ColumnAtRest

ThresholdNext ==
    \/ \E p \in Procs : \E proj \in Assigned(p) : GetLatestThreshold(p, proj) /\ UNCHANGED history_vars
    \/ \E p \in Procs : AcquireLock(p) /\ UNCHANGED history_vars
    \/ \E p \in Procs : UpdateThreshold(p) /\ UNCHANGED history_vars
    \/ \E p \in Procs : ReleaseLock(p) /\ UNCHANGED history_vars
    \/ \E seconds \in TickSeconds : Tick(seconds) /\ UNCHANGED history_vars

SpecThreshold == InitThreshold /\ [][ThresholdNext]_vars

\* The rate sample of one issue, for any age and number of events.
InitRate == SplitAtRest /\ ThresholdInit /\ RateInit /\ HistoryInit /\ DataclassAtRest
    /\ ColumnAtRest

NextRate == Subquery

SpecRate == InitRate /\ [][NextRate]_vars

\* The dataset-split engine, on any saved query and backend, beside an idle cache.
Init == SplitInit /\ ThresholdInit /\ RateAtRest /\ HistoryInit /\ DataclassAtRest
    /\ ColumnAtRest

Next ==
    \/ \E dry \in BOOLEAN : Call(dry)
    \/ ProbeErrors
    \/ ProbeTransactions

Spec == Init /\ [][Next]_vars

\* Processes contending for the lock of one project, with what each saw of
\* the entry.
ContendedProject == 1

InitContention == SplitAtRest /\ ThresholdInit /\ RateAtRest /\ HistoryInit /\ DataclassAtRest
    /\ ColumnAtRest

NextContention ==
    \/ \E p \in Procs : GetLatestThreshold(p, ContendedProject) /\ Observes(p) /\ UNCHANGED generation
    \/ \E p \in Procs : AcquireLock(p) /\ UNCHANGED history_vars
    \/ \E p \in Procs : UpdateThreshold(p) /\ Generations /\ UNCHANGED observed
    \/ \E p \in Procs : ReleaseLock(p) /\ UNCHANGED history_vars
    \/ \E seconds \in TickSeconds : Tick(seconds) /\ Generations /\ UNCHANGED observed

SpecContention == InitContention /\ [][NextContention]_vars

\* Callers that keep calling for one project whose entry is missing: a
\* process that can take a step (call again, try the lock, run the
\* recomputation, leave the with block) eventually takes it.
ProcessStep(p) ==
    /\ \/ GetLatestThreshold(p, ContendedProject)
       \/ AcquireLock(p)
       \/ UpdateThreshold(p)
       \/ ReleaseLock(p)
    /\ UNCHANGED history_vars

InitProgress == SplitAtRest /\ ThresholdInit /\ RateAtRest /\ HistoryInit /\ DataclassAtRest
    /\ ColumnAtRest

NextProgress == \E p \in Procs : ProcessStep(p)

\* The time range of the probe queries, for any time entries of a saved query.
InitDataclass == SplitAtRest /\ ThresholdInit /\ RateAtRest /\ HistoryInit /\ DataclassInit
    /\ ColumnAtRest

NextDataclass == GetSnubaDataclass

SpecDataclass == InitDataclass /\ [][NextDataclass]_vars

\* One column reference of any name, tested against both catalogues.
InitColumn == SplitAtRest /\ ThresholdInit /\ RateAtRest /\ HistoryInit /\ DataclassAtRest
    /\ ColumnInit

NextColumn == \E dataset \in {Events, Transactions} : CheckColumn(dataset)

SpecColumn == InitColumn /\ [][NextColumn]_vars

SpecProgress ==
    InitProgress /\ [][NextProgress]_vars /\ \A p \in Procs : WF_vars(ProcessStep(p))

-----------------------------------------------------------------------------
(* Vocabulary of the properties: what a saved query mentions, read off the  *)
(* query itself.                                                            *)

\* Predicates directly in the filter, and direct children of a top-level And / Or.
TopLevelPredicates ==
    LET where == saved_query.query.query IN
    { where[i] : i \in { j \in DOMAIN where : where[j].kind = "Condition" } }
    \cup UNION { { where[i].conditions[k] :
                     k \in { j \in DOMAIN where[i].conditions : where[i].conditions[j].kind = "Condition" } }
                 : i \in { j \in DOMAIN where : where[j].kind \in {"And", "Or"} } }

\* Column references an expression makes: itself, the column it aliases, or
\* its direct positional parameters.
ColumnNames(exp) ==
    IF exp.kind = "Column" THEN {exp.name}
    ELSE IF exp.kind = "AliasedExpression" THEN {exp.exp.name}
    ELSE IF exp.kind \in {"Function", "CurriedFunction"}
    THEN { exp.parameters[i].name :
             i \in { j \in DOMAIN exp.parameters : exp.parameters[j].kind = "Column" } }
    ELSE {}

FilterColumnNames == UNION { ColumnNames(p.lhs) : p \in TopLevelPredicates }

SelectedColumnNames ==
    UNION { ColumnNames(saved_query.query.fields[i]) : i \in DOMAIN saved_query.query.fields }

IsTypePredicate(p, op, rhs) ==
    p.lhs.kind = "Column" /\ p.lhs.name = "type" /\ p.op = op /\ p.rhs = rhs

ErrorDiscriminatorInFilter ==
    \E p \in TopLevelPredicates :
        IsTypePredicate(p, "EQ", "error") \/ IsTypePredicate(p, "NEQ", "transaction")

TransactionDiscriminatorInFilter ==
    \E p \in TopLevelPredicates : IsTypePredicate(p, "EQ", "transaction")

ErrorOnlyFieldInFilter == FilterColumnNames \cap ERROR_ONLY_FIELDS # {}
ErrorOnlyFieldSelected == SelectedColumnNames \cap ERROR_ONLY_FIELDS # {}
TransactionOnlyFieldInFilter == FilterColumnNames \cap TRANSACTION_ONLY_FIELDS # {}
TransactionOnlyFieldSelected == SelectedColumnNames \cap TRANSACTION_ONLY_FIELDS # {}

ErrorEvidence ==
    ErrorOnlyFieldInFilter \/ ErrorDiscriminatorInFilter \/ ErrorOnlyFieldSelected

TransactionEvidence ==
    TransactionOnlyFieldInFilter \/ TransactionDiscriminatorInFilter \/ TransactionOnlyFieldSelected

\* Every predicate of a filter node, at any depth.
RECURSIVE ConditionsWithin(_)
ConditionsWithin(node) ==
    IF node.kind = "Condition" THEN {node}
    ELSE UNION { ConditionsWithin(node.conditions[i]) : i \in DOMAIN node.conditions }

\* Predicates that only occur below a boolean node that is itself nested.
DeeperPredicates ==
    UNION { ConditionsWithin(saved_query.query.query[i]) : i \in DOMAIN saved_query.query.query }
    \ TopLevelPredicates

DeeperEvidence ==
    \E p \in DeeperPredicates :
        \/ ColumnNames(p.lhs) \cap (ERROR_ONLY_FIELDS \cup TRANSACTION_ONLY_FIELDS) # {}
        \/ IsTypePredicate(p, "EQ", "error")
        \/ IsTypePredicate(p, "NEQ", "transaction")
        \/ IsTypePredicate(p, "EQ", "transaction")

\* The top-level predicates on the column "type".
TypePredicates ==
    { p \in TopLevelPredicates : p.lhs.kind = "Column" /\ p.lhs.name = "type" }

\* The function calls of the query: left-hand sides of top-level predicates
\* and selected columns.
FunctionCalls ==
    { p.lhs : p \in { q \in TopLevelPredicates : q.lhs.kind \in {"Function", "CurriedFunction"} } }
    \cup { saved_query.query.fields[i] :
             i \in { j \in DOMAIN saved_query.query.fields :
                       saved_query.query.fields[j].kind \in {"Function", "CurriedFunction"} } }

\* Nothing but function calls is looked at in this query.
OnlyFunctionCalls ==
    /\ FunctionCalls # {}
    /\ \A p \in TopLevelPredicates : p.lhs \in FunctionCalls
    /\ \A i \in DOMAIN saved_query.query.fields : saved_query.query.fields[i] \in FunctionCalls

\* A direct positional parameter of f is a column of the given catalogue.
HasColumnParameterIn(f, fields) ==
    \E i \in DOMAIN f.parameters :
        f.parameters[i].kind = "Column" /\ f.parameters[i].name \in fields

Live == ~dry_run

Persisted(label, source) ==
    /\ saved_query.dataset = label
    /\ saved_query.dataset_source = source
    /\ save_calls = << [dataset |-> label, dataset_source |-> source] >>

(* The cache as the properties see it. *)

\* A step taken by process p: nobody else moved and no time passed.
StepOf(p) ==
    /\ clock' = clock
    /\ \A q \in Procs \ {p} :
          /\ position'[q] = position[q] /\ project'[q] = project[q]
          /\ data'[q] = data[q] /\ calculated'[q] = calculated[q]
          /\ threshold'[q] = threshold[q] /\ events'[q] = events[q]
          /\ read_after_zero_rows'[q] = read_after_zero_rows[q]
          /\ observed'[q] = observed[q]

\* p starts get_latest_threshold for proj.
Reads(p, proj) ==
    StepOf(p) /\ position[p] \in ThresholdReturned /\ project'[p] = proj

CachedValue(proj) == redis[THRESHOLD_KEY(proj)]
CachedDate(proj) == redis[STALE_DATE_KEY(proj)]

Today == clock \div SecondsPerDay

\* The cached date names a day before today.
CachedDateIsEarlier(proj) ==
    \E day \in 0 .. Today :
        day < Today /\ CachedDate(proj).value.digits = strftime(day * SecondsPerDay)

\* p runs update_threshold to its end: the query answered and the cache was written.
Updates(p) ==
    StepOf(p) /\ position[p] = "update" /\ position'[p] = "release" /\ data'[p].raises = None

\* A cache entry: the text and the time it is gone.
Entry(digits, expires_at) == [value |-> Bytes(digits), expires_at |-> expires_at]

\* The project's lock is taken and its time is not up.
LockHeld(proj) == locks[lock_key(proj)] # NoneValue

\* p tries the lock of its project while it is held.
Contends(p) == StepOf(p) /\ position[p] = "acquire" /\ LockHeld(project[p])

\* q took the lock of proj, has not released it, and its time is not up.
HoldsLock(q, proj) ==
    /\ position[q] \in {"update", "release"} /\ project[q] = proj
    /\ LockHeld(proj) /\ locks[lock_key(proj)].holder = q

\* The query of p's invocation answered, with these rows.
Answered(p) == data[p] # NotCalled /\ data[p].raises = None

StaleOrMissing(proj) ==
    \/ CachedDate(proj) = NoneValue
    \/ CachedValue(proj) = NoneValue
    \/ CachedDateIsEarlier(proj)

\* p's invocation did this.
Did(p, event) == \E i \in DOMAIN events[p] : events[p][i] = event

\* The reads of p and q found one and the same entry of one project, stale or missing.
SameObservation(p, q) ==
    /\ p # q /\ project[p] = project[q]
    /\ observed[p] # <<>> /\ observed[p] = observed[q]

\* The entry of proj was stored for 48 hours, on the day its date names.
StoredForTwoDays(proj) ==
    /\ CachedValue(proj) # NoneValue /\ CachedDate(proj) # NoneValue
    /\ CachedValue(proj).expires_at >= 48 * 60 * 60
    /\ CachedDate(proj).value.digits = strftime(CachedValue(proj).expires_at - 48 * 60 * 60)

\* A number, neither None nor NaN.
IsNumber(x) == x.type = "float" /\ "value" \in DOMAIN x /\ x.value \in Nat

\* The text of a number.
IsNumberText(x) ==
    x.type = "bytes" /\ x.digits # <<>> /\ \A i \in DOMAIN x.digits : x.digits[i] \in 0 .. 9

(* The time range as the properties see it. *)

Has(key) == key \in DOMAIN query_range

\* The entry under key names this day.
Names(key, day) == Has(key) /\ <<query_range[key], day>> \in KnownTimestamps

\* The trailing days up to now.
Trailing(days) == SnubaParams(Datetime(UtcNow - days), Datetime(UtcNow))

\* A range that ends before the retention boundary.
OutsideRetention(start_day, end_day) == end_day < UtcNow - RetentionDays

\* The column under test was tried against both datasets.
TriedBoth == DOMAIN matches = {Events, Transactions}

(* The samples as the properties see them. *)

AgeInMinutes == query_time - group.first_seen

\* The age of the issue in hours, as the database counts them.
AgeInHours == dateDiff(group.first_seen, query_time, hour_counting)

Min(a, b) == IF a < b THEN a ELSE b

-----------------------------------------------------------------------------
(* Properties *)

\* C1: the heuristics are tried in the order error filter, error selected
\* column, transaction filter, transaction selected column, and the first
\* success decides; so a query with both error-only and transaction-only
\* evidence is always inferred, and returned, as ERROR_EVENTS.
C1_ErrorChecksFirst ==
    pc # "idle" =>
        /\ dataset_inferred_from_query =
              IF ErrorOnlyFieldInFilter \/ ErrorDiscriminatorInFilter THEN ERROR_EVENTS
              ELSE IF ErrorOnlyFieldSelected THEN ERROR_EVENTS
              ELSE IF TransactionOnlyFieldInFilter \/ TransactionDiscriminatorInFilter
              THEN TRANSACTION_LIKE
              ELSE IF TransactionOnlyFieldSelected THEN TRANSACTION_LIKE
              ELSE None
        /\ (ErrorEvidence /\ TransactionEvidence =>
                /\ dataset_inferred_from_query = ERROR_EVENTS
                /\ pc = "done"
                /\ result = <<ERROR_EVENTS, FALSE>>)

\* An error-only selected column wins over a transaction-only filter predicate.
C1_Witness ==
    /\ pc = "done"
    /\ ~ErrorOnlyFieldInFilter /\ ~ErrorDiscriminatorInFilter
    /\ ErrorOnlyFieldSelected
    /\ TransactionOnlyFieldInFilter
    /\ result = <<ERROR_EVENTS, FALSE>>

\* C2: a query that selects, or filters at top level on, an error-only field
\* is returned as ERROR_EVENTS by the heuristics, a live run persists it with
\* provenance INFERRED, and no probe query is executed, whatever the backends
\* hold.
C2_ErrorOnlyFieldDecides ==
    ErrorOnlyFieldInFilter \/ ErrorOnlyFieldSelected =>
        /\ pc \in {"idle", "done"}
        /\ run_query_calls = <<>>
        /\ (pc = "done" =>
                /\ result = <<ERROR_EVENTS, FALSE>>
                /\ (Live => Persisted(ERROR_EVENTS, INFERRED)))

\* A live run on an error-only field while only the transaction backend has rows.
C2_Witness ==
    /\ pc = "done" /\ Live
    /\ ErrorOnlyFieldSelected /\ ~ErrorOnlyFieldInFilter /\ ~ErrorDiscriminatorInFilter
    /\ backend[Events].rows = 0
    /\ backend[Transactions].rows = 1
    /\ Persisted(ERROR_EVENTS, INFERRED)

\* C3: a query whose top-level filter holds type != "transaction" or
\* type = "error" is returned as ERROR_EVENTS and never reaches the probe
\* stage: no run_query call is made.
C3_ErrorDiscriminatorDecides ==
    ErrorDiscriminatorInFilter =>
        /\ pc \in {"idle", "done"}
        /\ run_query_calls = <<>>
        /\ (pc = "done" => result = <<ERROR_EVENTS, FALSE>>)

\* The discriminator is the only error evidence, against transaction evidence.
C3_Witness ==
    /\ pc = "done"
    /\ ErrorDiscriminatorInFilter
    /\ ~ErrorOnlyFieldInFilter /\ ~ErrorOnlyFieldSelected
    /\ TransactionEvidence
    /\ \E p \in TopLevelPredicates : IsTypePredicate(p, "NEQ", "transaction")
    /\ result = <<ERROR_EVENTS, FALSE>>
    /\ run_query_calls = <<>>

\* C4: a query with no error-side match but a transaction-only field in its
\* top-level filter or selected columns is returned as TRANSACTION_LIKE by the
\* heuristics: a live run persists provenance INFERRED and no probe query is
\* executed.
C4_TransactionOnlyFieldDecides ==
    ~ErrorEvidence /\ (TransactionOnlyFieldInFilter \/ TransactionOnlyFieldSelected) =>
        /\ pc \in {"idle", "done"}
        /\ run_query_calls = <<>>
        /\ (pc = "done" =>
                /\ result = <<TRANSACTION_LIKE, FALSE>>
                /\ (Live => Persisted(TRANSACTION_LIKE, INFERRED)))

\* A live run on a transaction-only filter column while the error backend has rows.
C4_Witness ==
    /\ pc = "done" /\ Live
    /\ ~ErrorEvidence
    /\ TransactionOnlyFieldInFilter /\ ~TransactionDiscriminatorInFilter
    /\ backend[Events].rows = 1
    /\ Persisted(TRANSACTION_LIKE, INFERRED)

\* The probe stage was entered by the running / last invocation.
ProbeStageReached == pc # "idle" /\ dataset_inferred_from_query = None

RowsIn(dataset) == backend[dataset].raises = None /\ backend[dataset].rows >= 1
ZeroRowsIn(dataset) == backend[dataset].raises = None /\ backend[dataset].rows = 0
HandledFailureIn(dataset) ==
    backend[dataset].raises \in {QueryIllegalTypeOfArgument, UnqualifiedQueryError}

Executed(i, dataset) ==
    i \in DOMAIN run_query_calls /\ run_query_calls[i].dataset = dataset

\* C5: with inconclusive heuristics, rows in the error-events probe decide
\* ERROR_EVENTS (INFERRED), also when the transaction backend has rows too;
\* otherwise rows in the transaction probe decide TRANSACTION_LIKE (INFERRED).
C5_ProbeDecisionRule ==
    ProbeStageReached /\ pc = "done" =>
        /\ (RowsIn(Events) =>
                /\ result = <<ERROR_EVENTS, TRUE>>
                /\ (Live => Persisted(ERROR_EVENTS, INFERRED)))
        /\ (~RowsIn(Events) /\ RowsIn(Transactions) =>
                /\ result = <<TRANSACTION_LIKE, TRUE>>
                /\ (Live => Persisted(TRANSACTION_LIKE, INFERRED)))

\* Both backends have rows and the live run persists ERROR_EVENTS.
C5_Witness ==
    /\ ProbeStageReached /\ pc = "done" /\ Live
    /\ RowsIn(Events) /\ RowsIn(Transactions)
    /\ Persisted(ERROR_EVENTS, INFERRED)

\* C6: with no dataset-exclusive field and both probes returning zero rows
\* the decision is ERROR_EVENTS, persisted by a live run with provenance
\* FORCED; and FORCED is saved only when the heuristics matched nothing and
\* neither probe yielded a row, every other save being INFERRED.
C6_ForcedOnlyWithoutEvidence ==
    /\ (/\ pc = "done"
        /\ ~ErrorOnlyFieldInFilter /\ ~ErrorOnlyFieldSelected
        /\ ~TransactionOnlyFieldInFilter /\ ~TransactionOnlyFieldSelected
        /\ Executed(1, Events) /\ ZeroRowsIn(Events)
        /\ Executed(2, Transactions) /\ ZeroRowsIn(Transactions)
        => /\ result = <<ERROR_EVENTS, TRUE>>
           /\ (Live => Persisted(ERROR_EVENTS, FORCED)))
    /\ \A i \in DOMAIN save_calls :
          /\ save_calls[i].dataset_source \in {INFERRED, FORCED}
          /\ (save_calls[i].dataset_source = FORCED <=>
                /\ ~ErrorEvidence /\ ~TransactionEvidence
                /\ ~RowsIn(Events) /\ ~RowsIn(Transactions))

\* A live run overwrites an inferred TRANSACTION_LIKE with the forced default.
C6_Witness ==
    /\ pc = "done" /\ Live
    /\ Executed(1, Events) /\ ZeroRowsIn(Events)
    /\ Executed(2, Transactions) /\ ZeroRowsIn(Transactions)
    /\ Persisted(ERROR_EVENTS, FORCED)
    /\ entry.dataset = TRANSACTION_LIKE

\* C7: a probe failing with QueryIllegalTypeOfArgument or
\* UnqualifiedQueryError counts as no data: after such a failure of the error
\* probe the transaction probe still runs, such a failure of the transaction
\* probe ends in the forced default, and the function raises only on a
\* failure of another kind.
C7_HandledProbeFailures ==
    /\ (Executed(1, Events) /\ HandledFailureIn(Events) =>
            /\ pc \in {"probe_transactions", "done", "raised"}
            /\ (pc \in {"done", "raised"} => Executed(2, Transactions)))
    /\ (Executed(2, Transactions) /\ HandledFailureIn(Transactions) =>
            /\ pc = "done"
            /\ result = <<ERROR_EVENTS, TRUE>>
            /\ (Live => Persisted(ERROR_EVENTS, FORCED)))
    /\ (pc = "raised" =>
            backend[run_query_calls[Len(run_query_calls)].dataset].raises = SnubaError)

\* Both probes fail, each with one of the two handled errors.
C7_Witness ==
    /\ pc = "done" /\ Live
    /\ Executed(1, Events) /\ backend[Events].raises = UnqualifiedQueryError
    /\ Executed(2, Transactions) /\ backend[Transactions].raises = QueryIllegalTypeOfArgument
    /\ Persisted(ERROR_EVENTS, FORCED)

\* C8 as stated: whenever the probe stage was reached and the function
\* returned, two probe queries were executed, one on each backend.
C8_AlwaysTwoProbes ==
    ProbeStageReached /\ pc = "done" =>
        /\ Len(run_query_calls) = 2
        /\ Executed(1, Events)
        /\ Executed(2, Transactions)

\* C8, amended: once the probe stage is reached the error-events query is
\* executed first; the transaction query is executed exactly when the
\* error-events query yielded no row (zero rows or a handled failure); every
\* executed query has limit 1 and the saved query's filter and fields.
C8_ProbesAreSequential ==
    /\ \A i \in DOMAIN run_query_calls :
          /\ run_query_calls[i].limit = 1
          /\ run_query_calls[i].where = saved_query.query.query
          /\ run_query_calls[i].columns = saved_query.query.fields
          /\ run_query_calls[i].dataset = IF i = 1 THEN Events ELSE Transactions
    /\ Len(run_query_calls) <= 2
    /\ (run_query_calls # <<>> => ProbeStageReached)
    /\ (ProbeStageReached /\ pc # "probe_errors" => Executed(1, Events))
    /\ (ProbeStageReached /\ pc = "done" =>
            (Executed(2, Transactions) <=> ~RowsIn(Events)))

\* Both probes ran: the error-events backend had no row.
C8_Witness ==
    /\ ProbeStageReached /\ pc = "done"
    /\ Executed(1, Events) /\ Executed(2, Transactions)
    /\ ZeroRowsIn(Events) /\ RowsIn(Transactions)

\* C9: a dry run leaves the saved query's dataset and dataset_source as they
\* were when it started and never calls save(), on every decision path.
C9_DryRunDoesNotPersist ==
    pc # "idle" /\ dry_run =>
        /\ saved_query.dataset = entry.dataset
        /\ saved_query.dataset_source = entry.dataset_source
        /\ save_calls = <<>>

\* A dry run reaches the forced default on a query persisted as TRANSACTION_LIKE.
C9_Witness ==
    /\ pc = "done" /\ dry_run
    /\ Executed(2, Transactions) /\ ~RowsIn(Transactions)
    /\ result = <<ERROR_EVENTS, TRUE>>
    /\ saved_query.dataset = TRANSACTION_LIKE
    /\ saved_query.dataset_source = INFERRED
    /\ log # <<>>

\* C10: a live invocation that returns has called save() exactly once, after
\* setting label and provenance together; the saved label is the returned
\* label, whatever label was persisted before; nothing is saved before the
\* decision is made.
C10_LivePersistsOnce ==
    /\ (pc = "done" /\ Live =>
            /\ Len(save_calls) = 1
            /\ save_calls[1].dataset = result[1]
            /\ save_calls[1].dataset_source \in {INFERRED, FORCED}
            /\ saved_query.dataset = result[1]
            /\ saved_query.dataset_source = save_calls[1].dataset_source)
    /\ (pc \in {"probe_errors", "probe_transactions", "raised"} =>
            /\ save_calls = <<>>
            /\ saved_query.dataset = entry.dataset
            /\ saved_query.dataset_source = entry.dataset_source)

\* A live run replaces a previously persisted TRANSACTION_LIKE / INFERRED.
C10_Witness ==
    /\ pc = "done" /\ Live
    /\ entry.dataset = TRANSACTION_LIKE /\ entry.dataset_source = INFERRED
    /\ result = <<ERROR_EVENTS, FALSE>>
    /\ Persisted(ERROR_EVENTS, INFERRED)

\* C11: a live run that follows an earlier live run on the same saved query
\* and the same backend data leaves the label and provenance the earlier run
\* persisted; what the earlier run persisted does not change the decision.
C11_LiveRunsAreIdempotent ==
    pc = "done" /\ Live /\ previous_live.returned =>
        /\ saved_query.dataset = previous_live.dataset
        /\ saved_query.dataset_source = previous_live.dataset_source
        /\ save_calls = << [dataset |-> previous_live.dataset,
                            dataset_source |-> previous_live.dataset_source] >>

\* The first live run replaced TRANSACTION_LIKE by the forced default, and
\* the second one went through both probes again.
C11_Witness ==
    /\ pc = "done" /\ Live /\ previous_live.returned
    /\ entry.dataset = ERROR_EVENTS /\ entry.dataset_source = FORCED
    /\ Executed(2, Transactions)
    /\ Persisted(ERROR_EVENTS, FORCED)

\* C20: the filter classification looks at the predicates of the where
\* clause and at the direct children of its And / Or nodes only; evidence that
\* sits deeper is never inspected, so a query whose only evidence is nested
\* deeper is not inferred and goes to the probes.
C20_OnlyTopLevelPredicatesInspected ==
    pc # "idle" /\ DeeperEvidence /\ ~ErrorEvidence /\ ~TransactionEvidence =>
        /\ dataset_inferred_from_query = None
        /\ pc = "done" => result[2] = TRUE

\* A single filter node whose only evidence sits two levels down, as in
\* Or(title, And(title, error-only field)), was not inferred and was probed.
C20_Witness ==
    /\ pc = "done"
    /\ DeeperEvidence /\ ~ErrorEvidence /\ ~TransactionEvidence
    /\ Len(saved_query.query.query) = 1
    /\ dataset_inferred_from_query = None
    /\ result[2] = TRUE

\* C12: get_latest_threshold goes for the project lock exactly when the
\* cached date is absent, names a day before today, or the cached value is
\* absent; otherwise it returns the cached text parsed as a number, having
\* touched neither the lock, nor the query, nor the cache.
C12_RecomputeExactlyWhenStale ==
    [][\A p \in Procs : \A proj \in Projects :
          Reads(p, proj) =>
             IF StaleOrMissing(proj)
             THEN position'[p] = "acquire"
             ELSE /\ position'[p] = "done"
                  /\ threshold'[p] = float(CachedValue(proj).value)
                  /\ events'[p] = <<"mget">>
                  /\ data'[p] = NotCalled
                  /\ UNCHANGED <<redis, locks>>]_vars

\* "p1" got a value cached today straight from the cache, while "p2", which
\* had read the same project when its entry was a day old, is about to try the lock.
C12_Witness ==
    /\ position["p1"] = "done" /\ events["p1"] = <<"mget">> /\ threshold["p1"] = Float(12)
    /\ project["p1"] = project["p2"]
    /\ position["p2"] = "acquire" /\ threshold["p2"] # NoneValue
    /\ ~StaleOrMissing(project["p1"])

\* C13: with the lock, update_threshold stores 0 for 10 minutes when the
\* calculation is None, 0 for 48 hours when it is NaN, and the calculated
\* value for 48 hours otherwise; it stores today's date with the same
\* time-to-live each time, and returns the value it stored.
C13_UpdateStoresValueAndDate ==
    [][\A p \in Procs :
          Updates(p) =>
             LET calculation == calculated'[p]
                 undetermined == calculation = NoneValue
                 value == IF undetermined \/ calculation = NaN THEN 0 ELSE calculation.value
                 expires_at == clock + (IF undetermined THEN 10 * 60 ELSE 48 * 60 * 60)
             IN  /\ redis'[THRESHOLD_KEY(project[p])] = Entry(Digits(value), expires_at)
                 /\ redis'[STALE_DATE_KEY(project[p])] = Entry(strftime(clock), expires_at)
                 /\ threshold'[p] = Float(value)]_vars

\* A NaN calculation has just been stored as "0" for 48 hours and returned as 0.
C13_Witness ==
    \E p \in Procs :
        /\ position[p] = "release" /\ calculated[p] = NaN
        /\ redis[THRESHOLD_KEY(project[p])] = Entry(<<0>>, clock + 48 * 60 * 60)
        /\ redis[STALE_DATE_KEY(project[p])] = Entry(<<2, 0, 2, 4, 0, 1, 3, 1>>, clock + 48 * 60 * 60)
        /\ threshold[p] = Float(0)

\* C14: when the lock of the project is held, the attempt ends the call at
\* once: it returns the value read before the attempt if there was one, else
\* 0, and neither runs the query nor writes the cache.
C14_ContendedReturnsStaleValue ==
    [][\A p \in Procs :
          Contends(p) =>
             /\ position'[p] = "done"
             /\ threshold'[p] = IF threshold[p] = NoneValue THEN Float(0)
                                ELSE Float(DecimalValue(threshold[p].digits))
             /\ data'[p] = NotCalled
             /\ UNCHANGED <<redis, locks>>]_vars

\* A process that had read "12" under yesterday's date was refused the lock
\* and returned 12 while the holder was still inside update_threshold.
C14_Witness ==
    \E p, q \in Procs :
        /\ position[p] = "done"
        /\ events[p] = <<"mget", "UnableToAcquireLock", "logger.warning">>
        /\ threshold[p] = Float(12)
        /\ position[q] = "update" /\ project[q] = project[p] /\ LockHeld(project[p])

\* C15 as stated: two processes are never inside update_threshold for the
\* same project at the same time.
C15_NeverConcurrent ==
    \A p, q \in Procs :
        p # q /\ position[p] = "update" /\ position[q] = "update" => project[p] # project[q]

\* C15: a process enters update_threshold for a project exactly when no other
\* process holds an unexpired lock of that project; so two processes overlap
\* on one project only after the earlier lock's 10 seconds are up, and work
\* on another project never keeps a process out.
C15_ExclusiveWhileLockUnexpired ==
    [][\A p \in Procs :
          StepOf(p) /\ position[p] = "acquire" =>
             (position'[p] = "update" <=>
                 ~ \E q \in Procs \ {p} : HoldsLock(q, project[p]))]_vars

\* Two processes are inside update_threshold for different projects, each
\* holding the lock of its own.
C15_Witness ==
    /\ position["p1"] = "update" /\ position["p2"] = "update"
    /\ project["p1"] # project["p2"]
    /\ HoldsLock("p1", project["p1"]) /\ HoldsLock("p2", project["p2"])

\* C16: the value and the date of a project are written together and for
\* the same time, so at any moment both keys exist, and go at the same
\* time, or neither exists.
C16_ValueAndDateTogether ==
    \A proj \in Projects :
        /\ CachedValue(proj) = NoneValue <=> CachedDate(proj) = NoneValue
        /\ CachedValue(proj) # NoneValue =>
              CachedValue(proj).expires_at = CachedDate(proj).expires_at

\* A process stored an undetermined result for project 1; its time-to-live
\* has passed since and both keys are gone, while project 2 has both.
C16_Witness ==
    /\ \E p \in Procs :
          /\ position[p] = "done" /\ project[p] = 1 /\ calculated[p] = NoneValue
          /\ threshold[p] = Float(0)
    /\ CachedValue(1) = NoneValue /\ CachedDate(1) = NoneValue
    /\ CachedValue(2) # NoneValue /\ CachedDate(2) # NoneValue
    /\ \A p \in Procs : position[p] \in ThresholdReturned

\* C17 as stated: a call whose read found the entry stored for a query
\* without rows, its time-to-live not yet over, returns 0.
C17_ZeroUntilExpiry ==
    \A p \in Procs :
        position[p] = "done" /\ read_after_zero_rows[p] # "no" => threshold[p] = Float(0)

\* C17: a query without rows leaves "0" cached for at most 10 minutes, and a
\* call that reads this entry on the day it was stored returns 0 straight
\* from the cache.  (A read after midnight finds the date stale and
\* recomputes although the entry has not expired.)
C17_ZeroUntilExpiryOrMidnight ==
    /\ \A proj \in Projects :
          zero_rows_stored[proj] =>
             /\ CachedValue(proj) # NoneValue
             /\ CachedValue(proj).value = Bytes(<<0>>)
             /\ CachedValue(proj).expires_at > clock
             /\ CachedValue(proj).expires_at <= clock + 10 * 60
    /\ \A p \in Procs :
          position[p] # "idle" /\ read_after_zero_rows[p] = "same day" =>
             position[p] = "done" /\ threshold[p] = Float(0) /\ events[p] = <<"mget">>

\* Five minutes after a query without rows had "0" stored, a second process
\* read the entry, still on the same day, and returned 0.
C17_Witness ==
    \E p \in Procs :
        /\ position[p] = "done" /\ read_after_zero_rows[p] = "same day"
        /\ threshold[p] = Float(0)
        /\ zero_rows_stored[project[p]]
        /\ CachedValue(project[p]).expires_at = clock + 5 * 60

\* C18: calculate_threshold returns None for an answer without rows, and
\* returns None after logging for an answer whose first row lacks the p99
\* entry; it raises in neither case, so the call goes on to store 0.
C18_UndeterminedNeverRaises ==
    \A p \in Procs :
        Answered(p) /\ (data[p].data = <<>> \/ "p99" \notin DOMAIN data[p].data[1]) =>
            /\ calculated[p] = NoneValue
            /\ position[p] # "raised"
            /\ data[p].data = <<>> <=>
                  \A i \in DOMAIN events[p] : events[p][i] # "logger.exception"

\* A first row without the p99 entry was logged, taken as None, stored as 0
\* and the call returned.
C18_Witness ==
    \E p \in Procs :
        /\ position[p] = "done" /\ Answered(p)
        /\ data[p].data # <<>> /\ "p99" \notin DOMAIN data[p].data[1]
        /\ calculated[p] = NoneValue
        /\ \E i \in DOMAIN events[p] : events[p][i] = "logger.exception"
        /\ threshold[p] = Float(0)

\* C19: an issue contributes a rate sample exactly when it has more than
\* one event in the past week and was first seen more than an hour ago (not
\* at 30 minutes, not with a single event); and the divisor of every
\* contributed sample is at least 1.
C19_AdmittedSamplesDivideByAtLeastOne ==
    sample # NotCalled =>
        /\ sample.admitted <=> (group.past_week_event_count > 1 /\ AgeInMinutes > 60)
        /\ sample.admitted => sample.hourly_event_rate.divisor >= 1

\* An issue first seen 61 minutes ago with two events is a sample, with divisor 1.
C19_Witness ==
    /\ sample # NotCalled /\ sample.admitted
    /\ AgeInMinutes = 61 /\ group.past_week_event_count = 2
    /\ sample.hourly_event_rate.divisor = 1

\* C21: a predicate on the column "type" is decided by the discriminator
\* rule alone: it counts for error events iff it is = "error" or
\* != "transaction", for transactions iff it is = "transaction", and any
\* other comparison on "type" counts for neither; so a query whose evidence
\* can only come from such predicates is inferred by this rule.
C21_TypeDecidedByDiscriminatorOnly ==
    /\ pc # "idle"
    /\ TypePredicates # {} /\ TopLevelPredicates = TypePredicates
    /\ ~ErrorOnlyFieldSelected /\ ~TransactionOnlyFieldSelected
    => dataset_inferred_from_query =
          IF \E p \in TypePredicates :
                \/ p.op = "EQ" /\ p.rhs = "error"
                \/ p.op = "NEQ" /\ p.rhs = "transaction"
          THEN ERROR_EVENTS
          ELSE IF \E p \in TypePredicates : p.op = "EQ" /\ p.rhs = "transaction"
               THEN TRANSACTION_LIKE
               ELSE None

\* The only predicate is type != "error": nothing was inferred and the
\* probes decided.
C21_Witness ==
    /\ pc = "done"
    /\ TypePredicates = { Condition(Column("type"), "NEQ", "error") }
    /\ TopLevelPredicates = TypePredicates
    /\ ~ErrorOnlyFieldSelected /\ ~TransactionOnlyFieldSelected
    /\ dataset_inferred_from_query = None
    /\ result[2] = TRUE

\* C22: a function call, as the left-hand side of a predicate or as a
\* selected column, counts for a dataset iff one of its direct positional
\* parameters is a column of that dataset's catalogue; literals and nested
\* calls among the parameters never count.  So a query made of function
\* calls only is inferred from their direct column parameters.
C22_FunctionsMatchByDirectColumns ==
    pc # "idle" /\ OnlyFunctionCalls =>
        dataset_inferred_from_query =
           IF \E f \in FunctionCalls : HasColumnParameterIn(f, ERROR_ONLY_FIELDS)
           THEN ERROR_EVENTS
           ELSE IF \E f \in FunctionCalls : HasColumnParameterIn(f, TRANSACTION_ONLY_FIELDS)
                THEN TRANSACTION_LIKE
                ELSE None

\* The calls of the query carry an error-only field name only as a literal
\* and inside a nested call: nothing was inferred and the probes decided.
C22_Witness ==
    /\ pc = "done"
    /\ OnlyFunctionCalls
    /\ FunctionCalls = { Function(OpaqueParameters) }
    /\ Len(saved_query.query.query) = 1 /\ Len(saved_query.query.fields) = 1
    /\ dataset_inferred_from_query = None
    /\ result[2] = TRUE

\* C23: whatever the outcome, the forced default included, the label a dry
\* run logs is the label it returns (the one a live run on the same inputs
\* persists).
C23_DryRunLogsReturnedLabel ==
    pc = "done" /\ dry_run => log = << result[1] >>

\* C24 as stated: of the processes whose reads found one and the same
\* stale or missing entry, at most one runs the recomputation and writes
\* the cache, whenever the others try the lock.
C24_OneRecomputationPerStaleEntry ==
    \A p, q \in Procs :
        SameObservation(p, q) => ~(Did(p, "pipeline.execute") /\ Did(q, "pipeline.execute"))

\* C24: of the processes whose reads found one and the same stale or missing
\* entry, one that tries the lock while another holds it unexpired returns
\* the value it read, or 0, without recomputing; one that tries it after the
\* holder's release (or after the lock's 10 seconds) recomputes and writes
\* the cache again.
C24_OneRecomputationPerLockTenure ==
    [][\A p \in Procs :
          StepOf(p) /\ position[p] = "acquire" /\ (\E q \in Procs : SameObservation(p, q)) =>
             IF \E q \in Procs \ {p} : HoldsLock(q, project[p])
             THEN /\ position'[p] = "done"
                  /\ threshold'[p] = IF threshold[p] = NoneValue THEN Float(0)
                                     ELSE Float(DecimalValue(threshold[p].digits))
                  /\ ~Did(p, "raw_snql_query")' /\ data'[p] = NotCalled
                  /\ UNCHANGED redis
             ELSE position'[p] = "update"]_vars

\* Two processes found the same missing entry; one recomputed, wrote 12 and
\* released the lock, and then the other took the lock and is recomputing.
C24_Witness ==
    \E p, q \in Procs :
        /\ SameObservation(p, q)
        /\ position[q] = "done" /\ Did(q, "pipeline.execute") /\ threshold[q] = Float(12)
        /\ position[p] = "update" /\ HoldsLock(p, project[p])
        /\ CachedValue(project[p]) # NoneValue

C25_FreshForTheDayOnly ==
    [][\A p \in Procs : \A proj \in Projects :
          Reads(p, proj) /\ StoredForTwoDays(proj) =>
             IF CachedDate(proj).value.digits = strftime(clock)
             THEN /\ position'[p] = "done"
                  /\ threshold'[p] = Float(DecimalValue(CachedValue(proj).value.digits))
                  /\ events'[p] = <<"mget">>
                  /\ data'[p] = NotCalled
                  /\ UNCHANGED <<redis, locks>>
             ELSE /\ position'[p] = "acquire"
                  /\ CachedValue(proj).expires_at > clock]_vars

\* 12 was stored for 48 hours five minutes before midnight; one process got
\* it straight from the cache that day, and the other, calling on the next
\* day, is about to try the lock with the entry still in the cache.
C25_Witness ==
    \E p, q \in Procs :
        /\ p # q /\ project[p] = project[q]
        /\ StoredForTwoDays(project[p]) /\ CachedValue(project[p]).value = Bytes(<<1, 2>>)
        /\ CachedDateIsEarlier(project[p])
        /\ position[p] = "done" /\ events[p] = <<"mget">> /\ threshold[p] = Float(12)
        /\ position[q] = "acquire" /\ threshold[q] = Bytes(<<1, 2>>)

\* C27: whatever get_latest_threshold returns (a fresh entry, a result just
\* computed, or the value read before a refused lock attempt) is a number,
\* never None and never NaN; a calculation that gave None or NaN is
\* returned as 0; and the value in the cache is the text of a number.
C27_AlwaysANumber ==
    /\ \A p \in Procs :
          position[p] = "done" =>
             /\ IsNumber(threshold[p])
             /\ calculated[p] \in {NoneValue, NaN} => threshold[p] = Float(0)
    /\ \A proj \in Projects :
          CachedValue(proj) # NoneValue => IsNumberText(CachedValue(proj).value)

\* One process, refused the lock with nothing read before, returned 0; the
\* holder's calculation gave NaN, "0" is stored and 0 is what it returns.
C27_Witness ==
    \E p, q \in Procs :
        /\ position[p] = "done" /\ threshold[p] = Float(0)
        /\ events[p] = <<"mget", "UnableToAcquireLock", "logger.warning">>
        /\ position[q] = "done" /\ calculated[q] = NaN /\ threshold[q] = Float(0)
        /\ project[p] = project[q]
        /\ CachedValue(project[q]).value = Bytes(<<0>>)

\* C28: get_snuba_dataclass always yields a start and an end, neither of
\* them None: the trailing 7 days without "start" and "range", or with a
\* range outside retention, or with an invalid relative range; the given
\* start and end when they lie inside retention; and a range all the same
\* when "start" or "end" is not a timestamp or "end" is absent.
C28_AlwaysAWellDefinedRange ==
    snuba_dataclass # NotCalled =>
       /\ snuba_dataclass.type = "SnubaParams"
       /\ snuba_dataclass.start # NoneValue /\ snuba_dataclass.end # NoneValue
       /\ ~Has("start") /\ ~Has("range") => snuba_dataclass = Trailing(7)
       /\ ~Has("start") /\ Has("range") /\ query_range["range"] = "abc" =>
             snuba_dataclass = Trailing(7)
       /\ \A start_day, end_day \in 0 .. UtcNow :
             Names("start", start_day) /\ Names("end", end_day) /\ start_day <= end_day =>
                snuba_dataclass =
                   IF OutsideRetention(start_day, end_day) THEN Trailing(7)
                   ELSE SnubaParams(Datetime(start_day), Datetime(end_day))

\* C29: a probe that fails with anything but QueryIllegalTypeOfArgument or
\* UnqualifiedQueryError ends the invocation with that failure: nothing is
\* returned, logged or saved, and label and provenance are what they were
\* when the invocation started, in a live run as in a dry run.
C29_OtherProbeFailurePropagates ==
    \A i \in DOMAIN run_query_calls :
        LET failure == backend[run_query_calls[i].dataset].raises IN
        failure # None /\ failure \notin {QueryIllegalTypeOfArgument, UnqualifiedQueryError} =>
            /\ pc = "raised" /\ i = Len(run_query_calls)
            /\ result = NoResult /\ log = <<>> /\ save_calls = <<>>
            /\ saved_query.dataset = entry.dataset
            /\ saved_query.dataset_source = entry.dataset_source

\* A live run on a query persisted as TRANSACTION_LIKE: the error probe
\* failed with a handled error, the transaction probe with another one.
C29_Witness ==
    /\ pc = "raised" /\ Live
    /\ Executed(1, Events) /\ HandledFailureIn(Events)
    /\ Executed(2, Transactions) /\ backend[Transactions].raises = SnubaError
    /\ saved_query.dataset = TRANSACTION_LIKE /\ saved_query.dataset_source = INFERRED

\* C30: the second element of the returned tuple is FALSE exactly when the
\* heuristics decided, no probe query having been executed, and TRUE
\* whenever the probe stage was reached, the forced default included; in a
\* dry run as in a live run.
C30_SecondElementTellsProbing ==
    pc = "done" =>
        /\ result[2] = FALSE <=> dataset_inferred_from_query # None
        /\ result[2] = FALSE <=> run_query_calls = <<>>
        /\ result[2] = TRUE <=> ProbeStageReached

\* A dry run went through both probes, found no row and returned the forced
\* default with TRUE.
C30_Witness ==
    /\ pc = "done" /\ dry_run
    /\ Len(run_query_calls) = 2 /\ ZeroRowsIn(Events) /\ ZeroRowsIn(Transactions)
    /\ result = <<ERROR_EVENTS, TRUE>>
    /\ save_calls = <<>>

\* C31: the hourly rate of every admitted sample is its count of events of
\* the past week over min(168, age in hours), the hours being those the
\* database counts between first_seen and now: 168 divides exactly when the
\* issue was first seen more than a week ago, otherwise the age in hours
\* divides, which is the whole hours elapsed or one more and never above 168.
C31_RateOverCappedAge ==
    sample # NotCalled /\ sample.admitted =>
        /\ sample.hourly_event_rate.dividend = group.past_week_event_count
        /\ sample.hourly_event_rate.divisor = Min(168, AgeInHours)
        /\ AgeInMinutes > 7 * 24 * 60 => sample.hourly_event_rate.divisor = 168
        /\ AgeInMinutes <= 7 * 24 * 60 =>
              /\ sample.hourly_event_rate.divisor = AgeInHours
              /\ AgeInHours <= 168
              /\ AgeInHours \in {AgeInMinutes \div 60, AgeInMinutes \div 60 + 1}

\* An issue first seen a week ago to the minute, with three events: not
\* older than a week, so its age divides, and the age is 168 hours.
C31_Witness ==
    /\ sample # NotCalled /\ sample.admitted
    /\ AgeInMinutes = 7 * 24 * 60 /\ group.past_week_event_count = 3
    /\ sample.hourly_event_rate = [dividend |-> 3, divisor |-> 168]

\* C32: the catalogue of transaction-only fields and the catalogue of
\* error-only fields have no field in common; so no column matches both the
\* error-events hint and the transaction hint, and a column of a field in
\* neither catalogue, "type" included, matches neither.
C32_CataloguesDisjoint ==
    /\ TRANSACTION_ONLY_FIELDS \cap ERROR_ONLY_FIELDS = {}
    /\ TriedBoth =>
          /\ ~(matches[Events] /\ matches[Transactions])
          /\ checked_column \notin TRANSACTION_ONLY_FIELDS \cup ERROR_ONLY_FIELDS =>
                ~matches[Events] /\ ~matches[Transactions]

\* "duration" was tried against both datasets and matched the transaction
\* hint only.
C32_Witness ==
    /\ TriedBoth /\ checked_column = "duration"
    /\ matches[Transactions] /\ ~matches[Events]

=============================================================================
